---- MODULE Spec2Model ----
(***************************************************************************)
(* Model of the byte codec of Array.h (namespaces RangedArray, ByteArray)  *)
(* and of the example frame of HDLC.cc.                                    *)
(*                                                                         *)
(* Scalars are held as bit patterns: a value of byte-width W is a          *)
(* little-endian sequence of 16-bit limbs (one limb for W <= 2, two for    *)
(* W = 4, four for W = 8), so that 32- and 64-bit arithmetic stays inside  *)
(* TLC's 32-bit integers.  A signed type holds its two's complement        *)
(* pattern.  Byte sequences (std::array<uint8_t, N>) are sequences of      *)
(* integers 0..255.                                                        *)
(***************************************************************************)
EXTENDS Integers, Sequences, FiniteSets, TLC

VARIABLES frame, call, ret

vars == <<frame, call, ret>>

(***************************************************************************)
(* Bounds of the model.                                                    *)
(***************************************************************************)
MaxLen == 3      \* longest std::array handed to array() and merge()
MaxArrays == 3   \* most arrays / values handed to a variadic call
MaxCount == 5    \* most bytes a getInteger call is asked to read
MaxOffset == 9   \* largest byte offset handed to the shifting getInteger

(***************************************************************************)
(* Integral types.                                                         *)
(***************************************************************************)
UnsignedTypes == {"uint8_t", "uint16_t", "uint32_t", "uint64_t"}
SignedTypes == {"int8_t", "int16_t", "int32_t", "int64_t"}
IntegralTypes == UnsignedTypes \cup SignedTypes

sizeof(T) ==
    CASE T \in {"uint8_t", "int8_t"} -> 1
      [] T \in {"uint16_t", "int16_t"} -> 2
      [] T \in {"uint32_t", "int32_t"} -> 4
      [] T \in {"uint64_t", "int64_t"} -> 8

is_signed(T) == T \in SignedTypes

\* Integral promotion: every type narrower than int is promoted to int.
Promote(T) == IF sizeof(T) < 4 THEN "int32_t" ELSE T

ByteBase == 2 ^ 8
LimbBase == ByteBase * ByteBase
NumLimbs(W) == (W + 1) \div 2

\* The std::array (or limb pattern) with the elements f[1], ..., f[n],
\* evaluated once.
std_array(f) == f \o <<>>

Zero(T) == std_array([k \in 1..NumLimbs(sizeof(T)) |-> 0])

\* 1 iff the pattern p of type T has its top bit set.
TopBit(p, T) ==
    IF sizeof(T) = 1 THEN p[1] \div (ByteBase \div 2)
    ELSE p[NumLimbs(sizeof(T))] \div (LimbBase \div 2)

IsNegative(p, T) == is_signed(T) /\ TopBit(p, T) = 1

\* static_cast<To>(value of type From): keep the low bytes when narrowing,
\* sign- or zero-extend when widening.
static_cast(p, From, To) ==
    LET fill == IsNegative(p, From)
        nf == NumLimbs(sizeof(From))
        low == IF sizeof(From) = 1 /\ sizeof(To) > 1 /\ fill
               THEN p[1] + (LimbBase - ByteBase) ELSE p[1]
    IN std_array([k \in 1..NumLimbs(sizeof(To)) |->
          IF k = 1 THEN (IF sizeof(To) = 1 THEN low % ByteBase ELSE low)
          ELSE IF k <= nf THEN p[k]
          ELSE IF fill THEN LimbBase - 1 ELSE 0])

\* p + q on two patterns of the same width, wrapping at that width.
RECURSIVE AddCarry(_, _, _, _)
AddCarry(p, q, k, carry) ==
    IF k > Len(p) THEN <<>>
    ELSE LET s == p[k] + q[k] + carry
         IN <<s % LimbBase>> \o AddCarry(p, q, k + 1, s \div LimbBase)

Add(p, q) == AddCarry(p, q, 1, 0)

\* p << 8 and p >> 8 on a pattern of at least 4 bytes; fill is the limb
\* shifted in from the top (0, or all ones for a negative signed value).
ShlByte(p) ==
    std_array([k \in 1..Len(p) |->
        ((p[k] * ByteBase) % LimbBase) + (IF k > 1 THEN p[k - 1] \div ByteBase ELSE 0)])

ShrByte(p, fill) ==
    std_array([k \in 1..Len(p) |->
        (p[k] \div ByteBase)
          + ByteBase * ((IF k < Len(p) THEN p[k + 1] ELSE fill) % ByteBase)])

RECURSIVE ShlBytes(_, _)
ShlBytes(p, n) == IF n = 0 THEN p ELSE ShlBytes(ShlByte(p), n - 1)

RECURSIVE ShrBytes(_, _, _)
ShrBytes(p, n, fill) == IF n = 0 THEN p ELSE ShrBytes(ShrByte(p, fill), n - 1, fill)

\* What a shift by at least the width of its (promoted) left operand may
\* produce: undefined behaviour, here the two results builds give, the
\* shift count taken modulo the width ("masked") or every bit shifted out
\* ("flushed").
ShiftOutcomes == {"masked", "flushed"}

\* value << bits for a value of the promoted type T; bits is a multiple of 8.
ShiftLeft(p, T, bits, ub) ==
    IF bits >= 8 * sizeof(T)
    THEN IF ub = "masked" THEN ShlBytes(p, (bits % (8 * sizeof(T))) \div 8) ELSE Zero(T)
    ELSE ShlBytes(p, bits \div 8)

\* value >> bits for a value of the promoted type T: sign-filling for a
\* negative signed value, zero-filling otherwise.
ShiftRight(p, T, bits, ub) ==
    LET fill == IF IsNegative(p, T) THEN LimbBase - 1 ELSE 0
    IN IF bits >= 8 * sizeof(T)
       THEN IF ub = "masked" THEN ShrBytes(p, (bits % (8 * sizeof(T))) \div 8, fill)
            ELSE std_array([k \in 1..Len(p) |-> fill])
       ELSE ShrBytes(p, bits \div 8, fill)

\* The object representation of a value of type T on the little-endian
\* host the library insists on: byte i (from 0) is bits 8i..8i+7.
ObjectBytes(p, T) ==
    std_array([i \in 1..sizeof(T) |->
        (p[((i - 1) \div 2) + 1] \div (IF (i - 1) % 2 = 0 THEN 1 ELSE ByteBase)) % ByteBase])

(***************************************************************************)
(* Iterators.  An iterator is a container, a position in it (counted from  *)
(* the container's first element in traversal order) and a direction; vt   *)
(* is its value_type.  Arrays of uint8_t hold plain bytes 0..255, arrays   *)
(* of any other type hold bit patterns.                                    *)
(***************************************************************************)
front(arr, vt) == [buf |-> arr, pos |-> 0, rev |-> FALSE, vt |-> vt]
crbegin(arr, vt) == [buf |-> arr, pos |-> 0, rev |-> TRUE, vt |-> vt]
crend(arr, vt) == [buf |-> arr, pos |-> Len(arr), rev |-> TRUE, vt |-> vt]
Advance(it, n) == [it EXCEPT !.pos = it.pos + n]
Distance(last, first) == last.pos - first.pos

\* it[I].  A read outside the container is undefined behaviour: it gives
\* whatever lies there, oob[I + 1].
At(it, I, oob) ==
    LET j == it.pos + I
    IN IF j >= 0 /\ j < Len(it.buf)
       THEN (IF it.rev THEN it.buf[Len(it.buf) - j] ELSE it.buf[j + 1])
       ELSE oob[I + 1]

\* The scalar an array element stands for, and the element holding a scalar.
ElementValue(e, vt) == IF vt = "uint8_t" THEN <<e>> ELSE e
Element(p, vt) == IF vt = "uint8_t" THEN p[1] ELSE p

\* std::numeric_limits<T>::max()
numeric_limits_max(T) ==
    std_array([k \in 1..NumLimbs(sizeof(T)) |->
        IF is_signed(T) /\ k = NumLimbs(sizeof(T))
        THEN (IF sizeof(T) = 1 THEN (ByteBase \div 2) - 1 ELSE (LimbBase \div 2) - 1)
        ELSE (IF sizeof(T) = 1 THEN ByteBase - 1 ELSE LimbBase - 1)])

(***************************************************************************)
(* namespace RangedArray                                                   *)
(***************************************************************************)
\* sizeof of an argument type: a scalar type, or std::array<T, n>.
SizeOfArg(a) == IF a.kind = "array" THEN a.n * sizeof(a.T) ELSE sizeof(a.T)

RECURSIVE totalSize(_)
totalSize(args) ==
    IF args = <<>> THEN 0 ELSE SizeOfArg(Head(args)) + totalSize(Tail(args))

\* array(first, last, std::index_sequence<0..N-1>)
array_seq(first, last, N, oob) ==
    LET d == Distance(last, first)
        range == IF d >= 0 THEN d ELSE -d
    IN IF range <= N
       THEN std_array([I \in 1..N |-> At(first, I - 1, oob)])
       ELSE std_array([I \in 1..N |-> Element(numeric_limits_max(first.vt), first.vt)])

\* array<size>(first, last)
array_range(size, first, last, oob) == array_seq(first, last, size, oob)

\* array<size>(first)
array_first(size, first, oob) == array_range(size, first, Advance(first, size), oob)

\* merge_it with the two expansions in the wrong order.
merge_it_swapped(A, m, B, n) ==
    std_array([k \in 1..(m + n) |->
                 IF k <= n THEN At(B, k - 1, <<>>) ELSE At(A, k - n - 1, <<>>)])

\* merge(A, index_sequence<0..m-1>, B, index_sequence<0..n-1>)
merge_it(A, m, B, n) ==
    std_array([k \in 1..(m + n) |->
                 IF k <= m THEN At(A, k - 1, <<>>) ELSE At(B, k - m - 1, <<>>)])

\* merge(arr)
merge_one(arr) == arr

\* merge(arrA, arrB)
merge_two(T, arrA, arrB) ==
    merge_it(front(arrA, T), Len(arrA), front(arrB, T), Len(arrB))

\* merge folding its first pair behind the remaining arrays.
RECURSIVE merge_misfolded(_, _)
merge_misfolded(T, arrs) ==
    IF Len(arrs) = 1 THEN merge_one(arrs[1])
    ELSE IF Len(arrs) = 2 THEN merge_two(T, arrs[1], arrs[2])
    ELSE merge_misfolded(T, SubSeq(arrs, 3, Len(arrs)) \o <<merge_two(T, arrs[1], arrs[2])>>)

\* merge(arrA, arrB, arrN...): the overload chosen for each number of arrays.
RECURSIVE merge(_, _)
merge(T, arrs) ==
    IF Len(arrs) = 1 THEN merge_one(arrs[1])
    ELSE IF Len(arrs) = 2 THEN merge_two(T, arrs[1], arrs[2])
    ELSE merge(T, <<merge_two(T, arrs[1], arrs[2])>> \o SubSeq(arrs, 3, Len(arrs)))

(***************************************************************************)
(* namespace ByteArray                                                     *)
(***************************************************************************)
\* byteArray reading the object from its last byte.
byteArray_backwards(value, T) ==
    array_first(sizeof(T), crbegin(ObjectBytes(value, T), "uint8_t"), <<>>)

\* byteArray<T, true>(value)
byteArray(value, T) ==
    array_first(sizeof(T), front(ObjectBytes(value, T), "uint8_t"), <<>>)

\* The reversed overload reading the object from its first byte.
byteArray_unreversed(value, T) ==
    array_first(sizeof(T), front(ObjectBytes(value, T), "uint8_t"), <<>>)

\* byteArray<T, false>(value)
byteArray_reversed(value, T) ==
    array_first(sizeof(T), crbegin(ObjectBytes(value, T), "uint8_t"), <<>>)

\* byteArray(first, std::index_sequence<0..size-1>)
byteArray_seq(first, size) ==
    merge("uint8_t",
          [I \in 1..size |->
              byteArray(ElementValue(At(first, I - 1, <<>>), first.vt), first.vt)])

\* byteArray<size>(first)
byteArray_it(size, first) == byteArray_seq(first, size)

\* byteArray(const std::array<T, size>&)
byteArray_arr(arr, T) == byteArray_it(Len(arr), front(arr, T))

\* An argument of byteArray: a scalar of type T, or a std::array<T, n>.
ScalarArg(v, T) == [kind |-> "scalar", T |-> T, n |-> 1, v |-> v]
ArrayArg(arr, T) == [kind |-> "array", T |-> T, n |-> Len(arr), v |-> arr]

\* byteArray(x) as overload resolution picks it for one argument.
byteArray_one(a) ==
    IF a.kind = "array" THEN byteArray_arr(a.v, a.T) ELSE byteArray(a.v, a.T)

\* byteArray(value1, value2) merging its arguments in the wrong order.
byteArray_two_swapped(a1, a2) ==
    merge("uint8_t", <<byteArray_one(a2), byteArray_one(a1)>>)

\* byteArray(value1, value2)
byteArray_two(a1, a2) == merge("uint8_t", <<byteArray_one(a1), byteArray_one(a2)>>)

\* byteArray(value1, value2, valueN...)
RECURSIVE byteArray_multi(_)
byteArray_multi(args) ==
    IF Len(args) = 1 THEN byteArray_one(args[1])
    ELSE IF Len(args) = 2 THEN byteArray_two(args[1], args[2])
    ELSE byteArray_multi(
           <<ArrayArg(byteArray_two(args[1], args[2]), "uint8_t")>>
           \o [k \in 1..(Len(args) - 2) |->
                 ArrayArg(byteArray_one(args[k + 2]), "uint8_t")])

\* reverseByteArray(const std::array<T, size>&)
reverseByteArray_arr(arr, T) ==
    byteArray_arr(array_range(Len(arr), crbegin(arr, T), crend(arr, T), <<>>), T)

\* reverseByteArray(const T&)
reverseByteArray(value, T) == byteArray_reversed(value, T)

\* getInteger<T>(LSB, std::index_sequence<I..size-1>), return_value so far rv.
RECURSIVE getInteger_acc(_, _, _, _, _, _)
getInteger_acc(T, LSB, I, size, rv, ub) ==
    IF I >= size THEN rv
    ELSE LET P == Promote(T)
             byte == static_cast(<<At(LSB, I, <<>>)>>, "uint8_t", T)
             term == ShiftLeft(static_cast(byte, T, P), P, 8 * I, ub)
             sum == Add(static_cast(rv, T, P), term)
         IN getInteger_acc(T, LSB, I + 1, size, static_cast(sum, P, T), ub)

getInteger_seq(T, LSB, size, ub) == getInteger_acc(T, LSB, 0, size, Zero(T), ub)

\* getInteger<T, size>(first)
getInteger_it(T, size, first, ub) == getInteger_seq(T, first, size, ub)

Ok(v) == [status |-> "ok", value |-> v]
Rejected == [status |-> "rejected", value |-> <<>>]

\* getInteger<T, size>(const std::array<uint8_t, size>&)
getInteger_arr(T, arr, ub) ==
    IF sizeof(T) >= Len(arr)
    THEN Ok(getInteger_seq(T, front(arr, "uint8_t"), Len(arr), ub))
    ELSE Rejected

\* getInteger<T, Tval, offset>(value)
getInteger_shift(T, Tval, offset, value, ub) ==
    IF sizeof(Tval) >= offset
    THEN LET P == Promote(Tval)
         IN Ok(static_cast(ShiftRight(static_cast(value, Tval, P), P, 8 * offset, ub), P, T))
    ELSE Rejected

(***************************************************************************)
(* HDLC.cc                                                                 *)
(***************************************************************************)
BasicHeader_flag == 254
BasicFooter_flag == 254
CRC16_bias == 78

\* BasicHeader::serialize
BasicHeader_serialize(header) ==
    byteArray_multi(<<ScalarArg(<<BasicHeader_flag>>, "uint8_t"),
                      ScalarArg(header.address, "uint8_t"),
                      ScalarArg(header.control, "uint8_t")>>)

\* BasicData::serialize
BasicData_serialize(data) == data.info

\* operator T reading info from its last byte backwards.
BasicData_operator_backwards(data, T, ub) ==
    Ok(getInteger_it(T, sizeof(T), crbegin(data.info, "uint8_t"), ub))

\* BasicData::operator T: getInteger<T, sizeof(T)>(info) picks the std::array
\* overload when sizeof(T) is the array's length, the iterator one otherwise.
BasicData_operator(data, T, ub) ==
    IF sizeof(T) = Len(data.info)
    THEN getInteger_arr(T, data.info, ub)
    ELSE Ok(getInteger_it(T, sizeof(T), front(data.info, "uint8_t"), ub))

\* CRC16 reading the two bytes most significant first.
CRC16_big_endian(data) ==
    LET read == getInteger_it("uint16_t", 2,
                              crbegin(SubSeq(data, 1, 2), "uint8_t"), "masked")
        sum == Add(static_cast(read, "uint16_t", Promote("uint16_t")),
                   static_cast(<<CRC16_bias>>, "uint8_t", "int32_t"))
    IN static_cast(sum, "int32_t", "uint16_t")

\* CRC16(data): uint16_t + int, converted back to uint16_t on return.
CRC16(data) ==
    LET read == getInteger_it("uint16_t", 2, front(data, "uint8_t"), "masked")
        sum == Add(static_cast(read, "uint16_t", Promote("uint16_t")),
                   static_cast(<<CRC16_bias>>, "uint8_t", "int32_t"))
    IN static_cast(sum, "int32_t", "uint16_t")

\* BasicFooter::BasicFooter(data)
BasicFooter(data) == [fcs |-> CRC16(data)]

\* BasicFooter::serialize
BasicFooter_serialize(footer) ==
    byteArray_multi(<<ScalarArg(footer.fcs, "uint16_t"),
                      ScalarArg(<<BasicFooter_flag>>, "uint8_t")>>)

\* The frame with its footer initialised before its payload is stored: the
\* checksum is taken over a value-initialised (all zero) info.
HDLC_footer_first(address, control, info) ==
    [header |-> [address |-> <<address>>, control |-> <<control>>],
     data |-> [info |-> info],
     footer |-> BasicFooter(std_array([i \in 1..Len(info) |-> 0]))]

\* HDLC<BasicHeader, BasicData, BasicFooter>{address, control, info}
HDLC(address, control, info) ==
    [header |-> [address |-> <<address>>, control |-> <<control>>],
     data |-> [info |-> info],
     footer |-> BasicFooter(info)]

\* serialize with the footer merged before the payload.
HDLC_serialize_misordered(f) ==
    merge("uint8_t", <<BasicHeader_serialize(f.header),
                       BasicFooter_serialize(f.footer),
                       BasicData_serialize(f.data)>>)

\* HDLC::serialize
HDLC_serialize(f) ==
    merge("uint8_t", <<BasicHeader_serialize(f.header),
                       BasicData_serialize(f.data),
                       BasicFooter_serialize(f.footer)>>)

\* The frame HDLC.cc constructs at load time.
my_frame == HDLC(206, 1, <<222, 173, 190, 239, 250, 206, 176, 167>>)

(***************************************************************************)
(* Inputs.                                                                 *)
(***************************************************************************)
\* Scalar values (bit patterns) of each type.
Limbs32 == {0, 4660, 33023, 65535}
Limbs64 == {0, 33023, 65535}

Values(T) ==
    CASE sizeof(T) = 1 -> {<<0>>, <<1>>, <<127>>, <<128>>, <<206>>, <<255>>}
      [] sizeof(T) = 2 -> {<<0>>, <<255>>, <<256>>, <<4660>>, <<32768>>, <<44510>>, <<65535>>}
      [] sizeof(T) = 4 -> {<<lo, hi>> : lo \in Limbs32, hi \in Limbs32}
      [] sizeof(T) = 8 -> {<<a, b, c, d>> : a \in Limbs64, b \in Limbs64,
                                            c \in Limbs64, d \in Limbs64}
                          \cup {<<44510, 61374, 52986, 42928>>,
                                <<22136, 4660, 57072, 39612>>}

\* A few values of each type, for calls that take several.
FewValues(T) ==
    CASE sizeof(T) = 1 -> {<<1>>, <<254>>}
      [] sizeof(T) = 2 -> {<<4660>>, <<65280>>}
      [] sizeof(T) = 4 -> {<<22136, 4660>>, <<255, 65280>>}
      [] sizeof(T) = 8 -> {<<22136, 4660, 57072, 39612>>, <<65535, 0, 0, 32768>>}

\* Byte arrays: n consecutive byte values from s on, wrapping at 256.
Ramp(s, n) == std_array([i \in 1..n |-> (s + i - 1) % ByteBase])
RampStarts == {16, 127, 254}
ByteArrays(maxLen) == {Ramp(s, n) : s \in RampStarts, n \in 1..maxLen}

\* Sequences of lo..hi elements of S.
SeqsOf(S, lo, hi) == UNION {[1..n -> S] : n \in lo..hi}

\* Containers handed to array(): bytes, or 16-bit elements.
Elements(vt) == IF vt = "uint8_t" THEN {17, 255} ELSE {<<17>>, <<65535>>}
ElementTypes == {"uint8_t", "uint16_t"}

\* What a read outside a container may find there.
Garbage(vt) == IF vt = "uint8_t" THEN {0, 170} ELSE {<<0>>, <<43690>>}

\* Frames: address, control and payload.
Addresses == {0, 206, 255}
Controls == {1, 254}
Payloads ==
    {<<222, 173, 190, 239, 250, 206, 176, 167>>,
     <<0, 0, 0, 0, 0, 0, 0, 0>>,
     <<255, 255, 255, 255, 255, 255, 255, 255>>,
     <<178, 255, 1, 2, 3, 4, 5, 6>>,
     <<177, 0, 254, 254, 254, 254, 254, 254>>,
     <<1, 128, 0, 0, 0, 0, 0, 128>>}

Pending == [status |-> "pending", value |-> <<>>]

(***************************************************************************)
(* State.  frame is the Frame object; call is the operation invoked, with  *)
(* its arguments; ret is what it returned ("pending" until it has run,     *)
(* "rejected" when a static_assert refuses the call).                      *)
(*                                                                         *)
(* A behaviour starts either with a frame just constructed, or with the    *)
(* load-time frame and one call of the codec about to run.                 *)
(***************************************************************************)
Codec(c) == frame = my_frame /\ call = c /\ ret = Pending

InitFrame ==
    \E a \in Addresses, c \in Controls, p \in Payloads :
        /\ frame = HDLC(a, c, p)
        /\ call = [op |-> "HDLC", address |-> a, control |-> c, info |-> p]
        /\ ret = Ok(<<>>)

InitArray ==
    \E vt \in ElementTypes, rev \in BOOLEAN, n \in 1..MaxLen :
      \E buf \in SeqsOf(Elements(vt), 1, MaxLen) :
        \E f \in 0..Len(buf), l \in 0..Len(buf) :
          Codec([op |-> "array", vt |-> vt, buf |-> buf, rev |-> rev,
                 first |-> f, last |-> l, size |-> n])

InitMerge ==
    \E arrs \in SeqsOf(ByteArrays(MaxLen), 1, MaxArrays) :
        Codec([op |-> "merge", arrs |-> arrs])

InitByteArray ==
    \E T \in IntegralTypes, reversed \in BOOLEAN : \E v \in Values(T) :
        Codec([op |-> IF reversed THEN "reverseByteArray" ELSE "byteArray",
               T |-> T, value |-> v])

InitByteArrayArr ==
    \E T \in UnsignedTypes, reversed \in BOOLEAN :
      \E arr \in SeqsOf({Element(v, T) : v \in FewValues(T)}, 1, MaxLen) :
        Codec([op |-> IF reversed THEN "reverseByteArray_arr" ELSE "byteArray_arr",
               T |-> T, arr |-> arr])

ScalarArgs(types) == UNION {{ScalarArg(v, T) : v \in FewValues(T)} : T \in types}

InitByteArrayMulti ==
    \E args \in SeqsOf(ScalarArgs(UnsignedTypes), 2, MaxArrays) :
        Codec([op |-> "byteArray_multi", args |-> args])

InitGetInteger ==
    \E T \in UnsignedTypes, n \in 1..MaxCount, s \in RampStarts, arr \in BOOLEAN :
        Codec([op |-> IF arr THEN "getInteger_arr" ELSE "getInteger_it",
               T |-> T, bytes |-> Ramp(s, n), size |-> n])

InitGetIntegerShift ==
    \E T \in IntegralTypes, Tval \in IntegralTypes, offset \in 0..MaxOffset :
      \E v \in FewValues(Tval) \cup {numeric_limits_max(Tval), Zero(Tval)} :
        Codec([op |-> "getInteger_shift", T |-> T, Tval |-> Tval,
               offset |-> offset, value |-> v])

Init ==
    \/ InitFrame
    \/ InitArray
    \/ InitMerge
    \/ InitByteArray
    \/ InitByteArrayArr
    \/ InitByteArrayMulti
    \/ InitGetInteger
    \/ InitGetIntegerShift

Runs(op) == call.op = op /\ ret.status = "pending"

Return(r) == ret' = r /\ UNCHANGED <<frame, call>>

(***************************************************************************)
(* Operations of the codec.                                                *)
(***************************************************************************)
\* RangedArray::array<size>(first, last) over a container.
Array ==
    /\ Runs("array")
    /\ \E oob \in [1..call.size -> Garbage(call.vt)] :
         LET begin == IF call.rev THEN crbegin(call.buf, call.vt)
                      ELSE front(call.buf, call.vt)
         IN Return(Ok(array_range(call.size, Advance(begin, call.first),
                                  Advance(begin, call.last), oob)))

\* RangedArray::merge(arrs...)
Merge ==
    /\ Runs("merge")
    /\ Return(Ok(merge("uint8_t", call.arrs)))

\* ByteArray::byteArray(value)
ByteArray ==
    /\ Runs("byteArray")
    /\ Return(Ok(byteArray(call.value, call.T)))

\* ByteArray::reverseByteArray(value)
ReverseByteArray ==
    /\ Runs("reverseByteArray")
    /\ Return(Ok(reverseByteArray(call.value, call.T)))

\* ByteArray::byteArray(std::array)
ByteArrayArr ==
    /\ Runs("byteArray_arr")
    /\ Return(Ok(byteArray_arr(call.arr, call.T)))

\* ByteArray::reverseByteArray(std::array)
ReverseByteArrayArr ==
    /\ Runs("reverseByteArray_arr")
    /\ Return(Ok(reverseByteArray_arr(call.arr, call.T)))

\* ByteArray::byteArray(value1, value2, valueN...)
ByteArrayMulti ==
    /\ Runs("byteArray_multi")
    /\ Return(Ok(byteArray_multi(call.args)))

\* ByteArray::getInteger<T, size>(first)
GetIntegerIt ==
    /\ Runs("getInteger_it")
    /\ \E ub \in ShiftOutcomes :
         Return(Ok(getInteger_it(call.T, call.size, front(call.bytes, "uint8_t"), ub)))

\* ByteArray::getInteger<T, size>(std::array)
GetIntegerArr ==
    /\ Runs("getInteger_arr")
    /\ \E ub \in ShiftOutcomes : Return(getInteger_arr(call.T, call.bytes, ub))

\* ByteArray::getInteger<T, Tval, offset>(value)
GetIntegerShift ==
    /\ Runs("getInteger_shift")
    /\ \E ub \in ShiftOutcomes :
         Return(getInteger_shift(call.T, call.Tval, call.offset, call.value, ub))

(***************************************************************************)
(* Operations on the frame.                                                *)
(***************************************************************************)
\* The frame is operated on in the behaviours that constructed it; a codec
\* call keeps no state, so nothing is gained by running frame operations
\* after it.
OnFrame == call.op \in {"HDLC", "serialize", "operator T"}

\* HDLC::serialize
Serialize ==
    /\ OnFrame
    /\ call' = [op |-> "serialize"]
    /\ ret' = Ok(HDLC_serialize(frame))
    /\ UNCHANGED frame

\* BasicData::operator T
Convert ==
    /\ OnFrame
    /\ \E T \in UnsignedTypes, ub \in ShiftOutcomes :
         /\ call' = [op |-> "operator T", T |-> T]
         /\ ret' = BasicData_operator(frame.data, T, ub)
    /\ UNCHANGED frame

Next ==
    \/ Array
    \/ Merge
    \/ ByteArray
    \/ ReverseByteArray
    \/ ByteArrayArr
    \/ ReverseByteArrayArr
    \/ ByteArrayMulti
    \/ GetIntegerIt
    \/ GetIntegerArr
    \/ GetIntegerShift
    \/ Serialize
    \/ Convert

Spec == Init /\ [][Next]_vars

(***************************************************************************)
(* Properties.                                                             *)
(***************************************************************************)
Returned(op) == call.op = op /\ ret.status # "pending"

\* The bytes of a pattern of width W, least significant first, limb by limb.
RECURSIVE LittleEndian(_, _)
LittleEndian(p, W) ==
    IF W = 1 THEN <<p[1]>>
    ELSE IF p = <<>> THEN <<>>
    ELSE <<Head(p) % 256, Head(p) \div 256>> \o LittleEndian(Tail(p), W)

RECURSIVE Reversed(_)
Reversed(s) == IF s = <<>> THEN <<>> ELSE Reversed(Tail(s)) \o <<Head(s)>>

RECURSIVE Concatenation(_)
Concatenation(ss) == IF ss = <<>> THEN <<>> ELSE Head(ss) \o Concatenation(Tail(ss))

\* C1: serialize() of the frame built from (a, c, p) is the 14 bytes
\* [0xFE, a, c, p[0..7], checksum low, checksum high, 0xFE], the checksum
\* being p[0] + 256 * p[1] + 0x4E in 16 bits; the frame of the example
\* serializes to FE CE 01 DE AD BE EF FA CE B0 A7 2C AE FE.
C1_FrameLayout ==
    Returned("serialize") =>
        LET a == frame.header.address[1]
            c == frame.header.control[1]
            p == frame.data.info
            checksum == (p[1] + 256 * p[2] + 78) % 65536
        IN /\ ret.status = "ok"
           /\ Len(ret.value) = 14
           /\ ret.value = <<254, a, c>> \o p \o <<checksum % 256, checksum \div 256, 254>>
           /\ (a = 206 /\ c = 1 /\ p = <<222, 173, 190, 239, 250, 206, 176, 167>>
                 => ret.value = <<254, 206, 1, 222, 173, 190, 239, 250, 206,
                                  176, 167, 44, 174, 254>>)

C1_Witness ==
    /\ Returned("serialize")
    /\ frame = my_frame
    /\ ret.value = <<254, 206, 1, 222, 173, 190, 239, 250, 206, 176, 167, 44, 174, 254>>

\* The elements start[0], ..., start[n-1] of the container an array() call
\* iterates, in iteration order.
StartElements(c) ==
    LET order == IF c.rev THEN Reversed(c.buf) ELSE c.buf
    IN SubSeq(order, c.first + 1, c.first + c.size)

\* C2: build(start, end, length) returns start[0], ..., start[length-1]
\* whenever the distance from start to end is at least length, also when
\* it is strictly greater.
C2_BuildCopies ==
    (Returned("array") /\ call.last - call.first >= call.size) =>
        /\ ret.status = "ok"
        /\ ret.value = StartElements(call)

\* C3: build(start, end, length) with a distance from start to end smaller
\* than length fails explicitly and yields no sequence.
C3_BuildRejects ==
    (Returned("array") /\ call.last >= call.first
                       /\ call.last - call.first < call.size) =>
        ret.status = "rejected"

\* C4: for an unsigned value v of width W, byteArray(v) is the W bytes of v
\* least significant first, and getInteger over those W bytes gives v back,
\* in the iterator form and in the std::array form.
C4_NativeRoundTrip ==
    (Returned("byteArray") /\ call.T \in UnsignedTypes) =>
        /\ ret.status = "ok"
        /\ Len(ret.value) = sizeof(call.T)
        /\ ret.value = LittleEndian(call.value, sizeof(call.T))
        /\ \A ub \in ShiftOutcomes :
             /\ getInteger_it(call.T, sizeof(call.T), front(ret.value, "uint8_t"), ub)
                  = call.value
             /\ getInteger_arr(call.T, ret.value, ub) = Ok(call.value)

C4_Witness ==
    /\ Returned("byteArray")
    /\ call.T = "uint64_t"
    /\ call.value = <<22136, 4660, 57072, 39612>>
    /\ ret.value = <<120, 86, 52, 18, 240, 222, 188, 154>>

\* The unsigned type as wide as T.
UnsignedOf(T) == CHOOSE U \in UnsignedTypes : sizeof(U) = sizeof(T)

\* C5: reverseByteArray(v) has length W and is byteArray(v) back to front,
\* so its bytes read most significant first give v, and reversing it again
\* gives the native byte sequence.
C5_ReversedRoundTrip ==
    Returned("reverseByteArray") =>
        LET W == sizeof(call.T)
            native == byteArray(call.value, call.T)
        IN /\ ret.status = "ok"
           /\ Len(ret.value) = W
           /\ \A i \in 1..W : ret.value[i] = native[W + 1 - i]
           /\ Reversed(ret.value) = LittleEndian(call.value, W)
           /\ \A ub \in ShiftOutcomes :
                getInteger_it(UnsignedOf(call.T), W, crbegin(ret.value, "uint8_t"), ub)
                  = call.value
           /\ reverseByteArray_arr(ret.value, "uint8_t") = native

C5_Witness ==
    /\ Returned("reverseByteArray")
    /\ call.T = "uint32_t"
    /\ call.value = <<33023, 4660>>
    /\ ret.value = <<18, 52, 128, 255>>

\* C6: merge(A, B) has length m + n, holds A at [0, m) and B at [m, m + n).
C6_MergeTwo ==
    (Returned("merge") /\ Len(call.arrs) = 2) =>
        LET A == call.arrs[1]
            B == call.arrs[2]
        IN /\ ret.status = "ok"
           /\ Len(ret.value) = Len(A) + Len(B)
           /\ \A i \in 1..Len(A) : ret.value[i] = A[i]
           /\ \A i \in 1..Len(B) : ret.value[Len(A) + i] = B[i]

C6_Witness ==
    /\ Returned("merge")
    /\ call.arrs = <<<<254, 255, 0>>, <<16>>>>
    /\ ret.value = <<254, 255, 0, 16>>

\* C7: merge over k >= 2 arrays is their concatenation in order, and for
\* three arrays merge(merge(A, B), C) = merge(A, merge(B, C)) = merge(A, B, C).
C7_MergeAssociative ==
    (Returned("merge") /\ Len(call.arrs) >= 2) =>
        /\ ret.status = "ok"
        /\ ret.value = Concatenation(call.arrs)
        /\ Len(call.arrs) = 3 =>
             LET A == call.arrs[1]
                 B == call.arrs[2]
                 C == call.arrs[3]
             IN /\ merge_two("uint8_t", merge_two("uint8_t", A, B), C) = ret.value
                /\ merge_two("uint8_t", A, merge_two("uint8_t", B, C)) = ret.value

C7_Witness ==
    /\ Returned("merge")
    /\ call.arrs = <<<<16, 17>>, <<254>>, <<127, 128, 129>>>>
    /\ ret.value = <<16, 17, 254, 127, 128, 129>>

\* C8: getInteger asked for more bytes than T holds is rejected before any
\* accumulation, in the iterator form and in the std::array form.
C8_AssembleRejectsWide ==
    ((Returned("getInteger_it") \/ Returned("getInteger_arr"))
        /\ call.size > sizeof(call.T)) =>
        ret.status = "rejected"

\* The pattern of type T whose bytes are those of v (of type Tval) from byte
\* offset on, zeros above: v shifted right logically and narrowed to T.
LogicalShift(v, Tval, offset, T) ==
    LET bytes == LittleEndian(v, sizeof(Tval))
    IN [i \in 1..sizeof(T) |->
          IF i + offset <= sizeof(Tval) THEN bytes[i + offset] ELSE 0]

\* C9: getInteger<T, Tval, offset>(v) is v shifted right logically by
\* 8 * offset bits and narrowed to T, for every offset up to the byte-width
\* of Tval (where it is 0) and every v, negative ones included.
C9_ExtractLogicalShift ==
    (Returned("getInteger_shift") /\ call.offset <= sizeof(call.Tval)
                                  /\ sizeof(call.T) <= sizeof(call.Tval)) =>
        /\ ret.status = "ok"
        /\ LittleEndian(ret.value, sizeof(call.T))
             = LogicalShift(call.value, call.Tval, call.offset, call.T)

RECURSIVE WidthsBefore(_, _)
WidthsBefore(args, k) ==
    IF k = 1 THEN 0 ELSE WidthsBefore(args, k - 1) + sizeof(args[k - 1].T)

\* C10: byteArray over an array of scalars, or over two or more scalars of
\* independent types, is the concatenation in order of each scalar's bytes
\* least significant first: the k-th group starts at the sum of the widths
\* before it and the total length is the sum of all widths.
C10_SplitSequence ==
    /\ Returned("byteArray_arr") =>
         LET W == sizeof(call.T)
         IN /\ ret.status = "ok"
            /\ Len(ret.value) = Len(call.arr) * W
            /\ \A k \in 1..Len(call.arr) :
                 SubSeq(ret.value, (k - 1) * W + 1, k * W)
                   = LittleEndian(ElementValue(call.arr[k], call.T), W)
    /\ Returned("byteArray_multi") =>
         /\ ret.status = "ok"
         /\ Len(ret.value) = totalSize(call.args)
         /\ Len(ret.value) = WidthsBefore(call.args, Len(call.args) + 1)
         /\ \A k \in 1..Len(call.args) :
              LET from == WidthsBefore(call.args, k)
              IN SubSeq(ret.value, from + 1, from + sizeof(call.args[k].T))
                   = LittleEndian(call.args[k].v, sizeof(call.args[k].T))

C10_Witness ==
    /\ Returned("byteArray_multi")
    /\ call.args = <<ScalarArg(<<4660>>, "uint16_t"), ScalarArg(<<254>>, "uint8_t"),
                     ScalarArg(<<22136, 4660>>, "uint32_t")>>
    /\ ret.value = <<52, 18, 254, 120, 86, 52, 18>>

\* The footer holds the checksum of the payload the frame holds.
FooterMatchesPayload == frame.footer.fcs = CRC16(frame.data.info)

\* C11: in every state of a frame, after construction and after any
\* sequence of serialize and payload conversions, the footer's checksum is
\* the checksum of the frame's payload, and no operation changes the
\* frame's header, payload or footer.
C11_ChecksumFixed ==
    /\ []FooterMatchesPayload
    /\ [][frame' = frame]_vars

C11_Witness ==
    /\ Returned("operator T")
    /\ frame.data.info = <<178, 255, 1, 2, 3, 4, 5, 6>>
    /\ frame.header.address = <<255>>
    /\ frame.footer.fcs = <<0>>

\* C12: a payload holding the bytes of a 64-bit value v converts back to
\* the 64-bit integer v and serializes to those same 8 bytes; converted to
\* an unsigned type of width W < 8 it gives the little-endian value of its
\* first W bytes only.
C12_PayloadReconstruction ==
    Returned("operator T") =>
        LET W == sizeof(call.T)
            info == frame.data.info
        IN /\ ret.status = "ok"
           /\ Len(ret.value) = NumLimbs(W)
           /\ LittleEndian(ret.value, W) = SubSeq(info, 1, W)
           /\ W = 8 => /\ byteArray(ret.value, call.T) = info
                       /\ BasicData_serialize(frame.data) = byteArray(ret.value, call.T)
                       /\ \A v \in Values(call.T) :
                            byteArray(v, call.T) = info => ret.value = v

C12_Witness ==
    /\ Returned("operator T")
    /\ call.T = "uint64_t"
    /\ frame.data.info = <<222, 173, 190, 239, 250, 206, 176, 167>>
    /\ frame.data.info = byteArray(<<44510, 61374, 52986, 42928>>, "uint64_t")
    /\ ret.value = <<44510, 61374, 52986, 42928>>

\* C13: reverseByteArray over an array of size elements of width W is the
\* byte array byteArray gives for it, back to front:
\* reverseByteArray(arr)[k] = byteArray(arr)[size * W - 1 - k], for W > 1 as
\* for W = 1.
C13_ReverseArrayBytes ==
    Returned("reverseByteArray_arr") =>
        LET n == Len(call.arr) * sizeof(call.T)
            split == byteArray_arr(call.arr, call.T)
        IN /\ ret.status = "ok"
           /\ Len(ret.value) = n
           /\ \A k \in 1..n : ret.value[k] = split[n + 1 - k]

\* C14: the checksum of a payload p is (p[0] + 256 * p[1] + 0x4E) mod 65536,
\* whatever its other bytes, wrapping in 16 bits, and the frame serializes
\* it as checksum mod 256 followed by checksum div 256.
C14_ChecksumFormula ==
    OnFrame =>
        LET p == frame.data.info
            checksum == (p[1] + 256 * p[2] + 78) % 65536
        IN /\ frame.footer.fcs = <<checksum>>
           /\ \A rest \in Payloads :
                CRC16(SubSeq(p, 1, 2) \o SubSeq(rest, 3, 8)) = <<checksum>>
           /\ BasicFooter_serialize(frame.footer)
                = <<checksum % 256, checksum \div 256, 254>>
           /\ Returned("serialize") =>
                /\ ret.value[12] = checksum % 256
                /\ ret.value[13] = checksum \div 256

C14_Witness ==
    /\ Returned("serialize")
    /\ frame.data.info = <<255, 255, 255, 255, 255, 255, 255, 255>>
    /\ frame.footer.fcs = <<77>>
    /\ ret.value[12] = 77
    /\ ret.value[13] = 0

====
